---- MODULE Spec2Model ----
(***************************************************************************)
(* Model of the resonant-scanner pipeline (python/pipeline/reso.py) and of *)
(* the polling worker that drives it (python/scripts/worker-populate.py).  *)
(*                                                                         *)
(* The relational storage, the populate executor, the job reservation     *)
(* store and the cascading delete belong to the DataJoint framework, whose *)
(* code is not part of the source tree; they are modelled from sections    *)
(* 4.1-4.4 of the specification.  The stages (key sources, the order of    *)
(* the operations of every _make_tuples, the overridden deletes, the       *)
(* declared dependencies) and the worker loop are modelled from the source.*)
(*                                                                         *)
(* Abstractions: every scan has one channel, so the channel attribute is   *)
(* dropped from every key; computed (non-key) attributes are dropped       *)
(* except where a restriction reads them.                                  *)
(***************************************************************************)
EXTENDS Naturals, Integers, Sequences, FiniteSets, TLC

\* ------------------------------------------------------------------ bounds
MaxScans == 2
MaxSlices == 2
MaxMasks == 1
MaxUnits == 3
MaxDeletes == 1
MaxCycles == 2
MaxTime == 3
MaxNames == 2
MaxUm == 6
NumWorkers == 2

Scans == 1..MaxScans
Workers == 1..NumWorkers

\* scan.num_fields of the scan file of a scan: scan 1 has MaxSlices slices,
\* every other scan has a single slice.
num_fields(scan) == IF scan = 1 THEN MaxSlices ELSE 1

\* The number of masks a segmentation of a slice yields.
num_masks == MaxMasks

\* shared.SegmentationMethod: 1 is manual, 2 is nmf (reso.py lines 589, 608).
\* shared.SpikeMethod & {'language': 'python'}: 1 is oopsi, 2 is nmf.
SpikeMethods == {1, 2}

\* ------------------------------------------------------------------ rows
\* A row is a record over all key attributes; 0 stands for an attribute the
\* table does not have.
Row(scan, slice, method, mask, unit, spike) ==
    [scan |-> scan, slice |-> slice, method |-> method, mask |-> mask,
     unit |-> unit, spike |-> spike]

Attrs == {"scan", "slice", "method", "mask", "unit", "spike"}

NoKey == Row(0, 0, 0, 0, 0, 0)
ScanKey(scan) == Row(scan, 0, 0, 0, 0, 0)
SliceKey(scan, slice) == Row(scan, slice, 0, 0, 0, 0)

\* Tables of the schema, in declaration order.
T_ScanInfo == "ScanInfo"
T_Slice == "ScanInfo.Slice"
T_QuantalSize == "ScanInfo.QuantalSize"
T_CorrectionChannel == "CorrectionChannel"
T_RasterCorrection == "RasterCorrection"
T_MotionCorrection == "MotionCorrection"
T_SegmentationTask == "SegmentationTask"
T_ManualSegmentation == "ManualSegmentation"
T_NMF == "NMF"
T_Parameters == "NMF.Parameters"
T_BackgroundComponents == "NMF.BackgroundComponents"
T_ARCoefficients == "NMF.ARCoefficients"
T_Segmentation == "Segmentation"
T_Mask == "Segmentation.Mask"
T_MaskInfo == "Segmentation.MaskInfo"
T_Calcium == "Calcium"
T_CalciumTrace == "Calcium.Trace"
T_ScanSet == "ScanSet"
T_Unit == "ScanSet.Unit"
T_Activity == "Activity"
T_ActivityTrace == "Activity.Trace"

\* In declaration order: a table is declared after the tables it references,
\* except NMF.ARCoefficients, which references Segmentation.Mask.
TableOrder ==
    <<T_ScanInfo, T_Slice, T_QuantalSize, T_CorrectionChannel, T_RasterCorrection,
      T_MotionCorrection, T_SegmentationTask, T_ManualSegmentation, T_NMF,
      T_Parameters, T_BackgroundComponents, T_Segmentation, T_Mask, T_MaskInfo,
      T_ARCoefficients, T_Calcium, T_CalciumTrace, T_ScanSet, T_Unit, T_Activity,
      T_ActivityTrace>>

Tables == {TableOrder[i] : i \in 1..Len(TableOrder)}

\* Primary key attributes of each table (the lines above "---" of each
\* definition, foreign keys expanded).
PrimaryKey(t) ==
    CASE t \in {T_ScanInfo, T_RasterCorrection} -> {"scan"}
      [] t \in {T_Slice, T_QuantalSize, T_CorrectionChannel, T_MotionCorrection,
                T_SegmentationTask, T_ManualSegmentation, T_NMF, T_Parameters,
                T_BackgroundComponents} -> {"scan", "slice"}
      [] t \in {T_Segmentation, T_Calcium, T_ScanSet} -> {"scan", "slice", "method"}
      [] t \in {T_Mask, T_MaskInfo, T_ARCoefficients, T_CalciumTrace} ->
             {"scan", "slice", "method", "mask"}
      [] t = T_Unit -> {"scan", "method", "unit"}
      [] t = T_Activity -> {"scan", "slice", "method", "spike"}
      [] t = T_ActivityTrace -> {"scan", "method", "unit", "spike"}

\* The tables a table references with "->" (tables of other schemas left out).
References(t) ==
    CASE t \in {T_Slice, T_QuantalSize, T_RasterCorrection} -> {T_ScanInfo}
      [] t = T_MotionCorrection -> {T_RasterCorrection}
      [] t = T_NMF -> {T_MotionCorrection, T_SegmentationTask}
      [] t \in {T_Parameters, T_BackgroundComponents} -> {T_NMF}
      [] t = T_ARCoefficients -> {T_NMF, T_Mask}
      [] t = T_Mask -> {T_Segmentation}
      [] t = T_MaskInfo -> {T_Segmentation, T_Mask}
      [] t \in {T_Calcium, T_ScanSet} -> {T_Segmentation}
      [] t = T_CalciumTrace -> {T_Calcium, T_Mask}
      [] t = T_Unit -> {T_ScanInfo, T_Mask}
      [] t = T_Activity -> {T_ScanSet}
      [] t = T_ActivityTrace -> {T_Unit}
      [] OTHER -> {}

\* The projection of a row on a set of attributes.
Proj(r, attrs) == [a \in Attrs |-> IF a \in attrs THEN r[a] ELSE 0]

\* r joins with k: they agree on every attribute both have (the natural
\* join DataJoint's restriction "&", antijoin "-" and join "*" are built on).
Matches(r, k) == \A a \in Attrs : r[a] = 0 \/ k[a] = 0 \/ r[a] = k[a]

\* rel & other, rel - other, rel * other
Restrict(rel, other) == {r \in rel : \E k \in other : Matches(r, k)}
Minus(rel, other) == {r \in rel : ~ \E k \in other : Matches(r, k)}
Join(rel, other) ==
    {[a \in Attrs |-> IF r[a] # 0 THEN r[a] ELSE k[a]] :
        <<r, k>> \in {x \in rel \X other : Matches(x[1], x[2])}}

EmptyDb == [t \in Tables |-> {}]

\* ------------------------------------------------------------------ storage
\* The storage engine's uniqueness test, shared by every relation (the data
\* tables and the reservation table): a key is rejected when present.
KeyPresentNever(present, k) == FALSE

KeyPresent(present, k) == k \in present

IsDuplicate(rows, t, r) ==
    KeyPresent({Proj(x, PrimaryKey(t)) : x \in rows}, Proj(r, PrimaryKey(t)))

\* The storage engine's foreign-key test: the row r of table t references a
\* row the tables d do not hold.
MissingReference(d, t, r) ==
    \E p \in References(t) :
        ~ \E x \in d[p] : Proj(x, PrimaryKey(p)) = Proj(r, PrimaryKey(p))

\* ------------------------------------------------------------------ stages
\* experiment.Scan restricted to the resonant rigs and not ignored.
ExperimentScan == {ScanKey(s) : s \in Scans}

\* The computed and imported relations a worker can be asked to populate.
Stages == {T_ScanInfo, T_RasterCorrection, T_MotionCorrection, T_NMF, T_Calcium,
           T_ScanSet, T_Activity}

\* key_source of every stage, over the committed tables d.
ScanInfo_key_source(d) == ExperimentScan

\* A variant that asks for a correction channel on some slice only.
RasterCorrection_key_source_any(d) ==
    Restrict(d[T_ScanInfo], d[T_CorrectionChannel])

RasterCorrection_key_source(d) ==
    Minus(Restrict(d[T_ScanInfo], d[T_CorrectionChannel]),
          Minus(d[T_Slice], d[T_CorrectionChannel]))

MotionCorrection_key_source(d) == d[T_RasterCorrection]

\* NMF, Calcium and ScanSet declare no key_source: it is the join of the
\* tables their primary key references.
NMF_key_source(d) == Join(d[T_MotionCorrection], d[T_SegmentationTask])

Calcium_key_source(d) == d[T_Segmentation]

ScanSet_key_source(d) == d[T_Segmentation]

Activity_key_source(d) ==
    Join(d[T_ScanSet], {Row(0, 0, 0, 0, 0, m) : m \in SpikeMethods})

key_source(stage, d) ==
    CASE stage = T_ScanInfo -> ScanInfo_key_source(d)
      [] stage = T_RasterCorrection -> RasterCorrection_key_source(d)
      [] stage = T_MotionCorrection -> MotionCorrection_key_source(d)
      [] stage = T_NMF -> NMF_key_source(d)
      [] stage = T_Calcium -> Calcium_key_source(d)
      [] stage = T_ScanSet -> ScanSet_key_source(d)
      [] stage = T_Activity -> Activity_key_source(d)

\* Key Source Resolver: the eligible keys minus the ones the stage's own
\* table already holds, as keys of the stage's key source.
pending(stage, d) == Minus(key_source(stage, d), d[stage])

\* Every key a stage can be asked to compute.
SliceKeys == {SliceKey(s, i) : s \in Scans, i \in 1..MaxSlices}
KeySpace(stage) ==
    CASE stage \in {T_ScanInfo, T_RasterCorrection, T_MotionCorrection} ->
             {ScanKey(s) : s \in Scans}
      [] stage = T_NMF -> SliceKeys
      [] stage \in {T_Calcium, T_ScanSet} ->
             {[k EXCEPT !.method = m] : k \in SliceKeys, m \in {1, 2}}
      [] stage = T_Activity ->
             {[k EXCEPT !.method = m, !.spike = p] :
                 k \in SliceKeys, m \in {1, 2}, p \in SpikeMethods}

JobIds == UNION {{<<stage, k>> : k \in KeySpace(stage)} : stage \in Stages}

\* ------------------------------------------------------------------ compute
\* What a _make_tuples does, in order, as a sequence of operations:
\*   <<"insert", table, row>>  insert1 of the row into the table
\*   <<"fetch1", table, key>>  fetch1 on the table restricted by key
\*   <<"notify", stage, key>>  the notification hook
\*   <<"raise", stage, key>>   a raise statement
\* d holds the tables as the compute reads them.
Ins(t, r) == <<"insert", t, r>>
Fetch1(t, k) == <<"fetch1", t, k>>
Notify(stage, k) == <<"notify", stage, k>>
Raise(stage, k) == <<"raise", stage, k>>

\* The elements of a finite set of numbers in increasing order.
RECURSIVE Sorted(_)
Sorted(S) ==
    IF S = {} THEN <<>>
    ELSE LET m == CHOOSE x \in S : \A y \in S : x <= y
         IN <<m>> \o Sorted(S \ {m})

Max(S) == CHOOSE x \in S : \A y \in S : y <= x

\* A variant whose loop over the fields stops one field early.
ScanInfo_make_tuples_short(key, d) ==
    LET n == num_fields(key.scan) - 1 IN
    <<Ins(T_ScanInfo, key)>>
    \o [i \in 1..n |-> Ins(T_Slice, SliceKey(key.scan, i))]
    \o [i \in 1..n |-> Ins(T_QuantalSize, SliceKey(key.scan, i))]
    \o <<Notify(T_ScanInfo, key)>>

ScanInfo_make_tuples(key, d) ==
    LET n == num_fields(key.scan) IN
    <<Ins(T_ScanInfo, key)>>
    \o [i \in 1..n |-> Ins(T_Slice, SliceKey(key.scan, i))]
    \o [i \in 1..n |-> Ins(T_QuantalSize, SliceKey(key.scan, i))]
    \o <<Notify(T_ScanInfo, key)>>

RasterCorrection_make_tuples(key, d) ==
    LET slice_id == num_fields(key.scan) \div 2 IN
    <<Fetch1(T_CorrectionChannel, SliceKey(key.scan, slice_id + 1)),
      Ins(T_RasterCorrection, key),
      Notify(T_RasterCorrection, key)>>

RECURSIVE MotionCorrection_slices(_, _)
MotionCorrection_slices(key, slice_id) ==
    IF slice_id >= num_fields(key.scan) THEN <<>>
    ELSE <<Fetch1(T_CorrectionChannel, SliceKey(key.scan, slice_id + 1)),
           Ins(T_MotionCorrection, SliceKey(key.scan, slice_id + 1))>>
         \o MotionCorrection_slices(key, slice_id + 1)

\* A variant that computes the correction and inserts no row.
MotionCorrection_make_tuples_no_rows(key, d) ==
    <<Fetch1(T_ScanInfo, key), Notify(T_MotionCorrection, key)>>

MotionCorrection_make_tuples(key, d) ==
    <<Fetch1(T_ScanInfo, key)>>
    \o MotionCorrection_slices(key, 0)
    \o <<Notify(T_MotionCorrection, key)>>

RECURSIVE NMF_masks(_, _)
NMF_masks(key, i) ==
    IF i >= num_masks THEN <<>>
    ELSE LET mask_key == [key EXCEPT !.method = 2, !.mask = i + 1] IN
         <<Ins(T_Mask, mask_key), Ins(T_MaskInfo, mask_key),
           Ins(T_CalciumTrace, mask_key), Ins(T_ARCoefficients, mask_key)>>
         \o NMF_masks(key, i + 1)

NMF_make_tuples(key, d) ==
    <<Fetch1(T_RasterCorrection, ScanKey(key.scan)),
      Fetch1(T_MotionCorrection, key),
      Fetch1(T_SegmentationTask, key),
      Ins(T_NMF, [key EXCEPT !.method = 2]),
      Ins(T_Segmentation, [key EXCEPT !.method = 2]),
      Ins(T_Calcium, [key EXCEPT !.method = 2]),
      Ins(T_Parameters, key),
      Ins(T_BackgroundComponents, key)>>
    \o NMF_masks(key, 0)
    \o <<Notify(T_NMF, key)>>

Calcium_make_tuples(key, d) ==
    LET mask_ids == Sorted({r.mask : r \in Restrict(d[T_Mask], {key})}) IN
    <<Ins(T_Calcium, key)>>
    \o [i \in 1..Len(mask_ids) |-> Ins(T_CalciumTrace, [key EXCEPT !.mask = mask_ids[i]])]
    \o <<Notify(T_Calcium, key)>>

ScanSet_make_tuples(key, d) ==
    LET scan_key == Row(key.scan, 0, key.method, 0, 0, 0)
        unit_rel == Restrict(d[T_Unit], {scan_key})
        unit_id == IF unit_rel # {} THEN Max({r.unit : r \in unit_rel}) + 1 ELSE 1
        mask_ids == Sorted({r.mask : r \in Restrict(d[T_Mask], {key})})
    IN <<Ins(T_ScanSet, key)>>
       \o [i \in 1..Len(mask_ids) |->
              Ins(T_Unit, [key EXCEPT !.mask = mask_ids[i], !.unit = unit_id + i - 1])]

Activity_make_tuples(key, d) ==
    LET unit_ids == Sorted({r.unit : r \in Join(Restrict(d[T_Unit], {key}),
                                                 d[T_CalciumTrace])})
        scan_key == Row(key.scan, 0, key.method, 0, 0, key.spike)
    IN <<Fetch1(T_ScanInfo, ScanKey(key.scan)), Ins(T_Activity, key)>>
       \o (IF key.spike = 1
             THEN [i \in 1..Len(unit_ids) |->
                      Ins(T_ActivityTrace, [scan_key EXCEPT !.unit = unit_ids[i]])]
             ELSE <<Raise(T_Activity, key)>>)
       \o <<Notify(T_Activity, key)>>

make_tuples(stage, key, d) ==
    CASE stage = T_ScanInfo -> ScanInfo_make_tuples(key, d)
      [] stage = T_RasterCorrection -> RasterCorrection_make_tuples(key, d)
      [] stage = T_MotionCorrection -> MotionCorrection_make_tuples(key, d)
      [] stage = T_NMF -> NMF_make_tuples(key, d)
      [] stage = T_Calcium -> Calcium_make_tuples(key, d)
      [] stage = T_ScanSet -> ScanSet_make_tuples(key, d)
      [] stage = T_Activity -> Activity_make_tuples(key, d)

\* ------------------------------------------------------------------ state
VARIABLES
    db,          \* committed rows of every table
    jobs,        \* the reservation table: records [stage, key, status, owner, error_detail]
    relations,   \* per worker: the configured stages (args.relations), in order
    daemon,      \* per worker: args.daemon
    pc,          \* per worker: position in main
    run_daemon,  \* per worker: the loop variable of main
    populated_at_least_one,  \* per worker: the flag of the current cycle
    idx,         \* per worker: position of the for loop in relations
    keys,        \* per worker: keys the running populate call has still to visit
    cur,         \* per worker: the key being computed
    plan,        \* per worker: the operations of the running _make_tuples
    step,        \* per worker: position in plan
    tx,          \* per worker: rows inserted by the open transaction
    ncommit,     \* history: successful commits per <<stage, key>> since its rows were last deleted
    batch,       \* history, per worker: the keys the running populate call fetched
    earlier,     \* history, per worker: <<stage, key>> fetched by populate calls that returned
    del,         \* the user's running delete: the invocations still to run
    ndel,        \* the number of deletes users have called
    names,       \* per worker: args.relations, the names split at the commas
    t_min,       \* per worker: args.t_min
    t_max,       \* per worker: args.t_max
    slept,       \* per worker: the duration of the running time.sleep, 0 when none
    exit_code,   \* per worker: <<>> while the process runs, <<status>> once it has ended
    observe,     \* history switch: are log and ncycle recorded?
    log,         \* history, per worker: the calls of the current cycle, in order
    ncycle,      \* history, per worker: the cycles begun, counted up to MaxCycles
    compartment, \* the compartment of the segmentation task estimate_num_components is called on
    um_height,   \* the height of the task's slice, in micrometers
    um_width,    \* the width of the task's slice, in micrometers
    estimate     \* the outcome of the call of estimate_num_components, NotCalled before it

vars == <<db, jobs, relations, daemon, pc, run_daemon, populated_at_least_one,
          idx, keys, cur, plan, step, tx, ncommit, batch, earlier, del, ndel,
          names, t_min, t_max, slept, exit_code, observe, log, ncycle,
          compartment, um_height, um_width, estimate>>

task == <<compartment, um_height, um_width, estimate>>
config == <<relations, daemon, names, t_min, t_max, observe, task>>
trace == <<slept, exit_code, log, ncycle>>
loop == <<run_daemon, populated_at_least_one, idx>>
compute == <<cur, plan, step, tx>>
history == <<ncommit, batch, earlier>>
user == <<del, ndel>>

\* The tables as the worker's open transaction sees them.
View(w) == [t \in Tables |-> db[t] \cup tx[w][t]]

JobRecord(stage, key, status, owner, detail) ==
    [stage |-> stage, key |-> key, status |-> status, owner |-> owner,
     error_detail |-> detail]

stage_of(w) == relations[w][idx[w]]

\* ------------------------------------------------------------------ sleep
\* A variant that draws from one below low up to high.
randint_wide(low, high) == (low - 1)..high

\* np.random.randint(low, high), line 50: the values it can return, low
\* included and high excluded; the empty set stands for the ValueError it
\* raises when low >= high.
randint(low, high) == low..(high - 1)

\* ------------------------------------------------------------------ reservation store
\* main, line 48: populate is called with reserve_jobs=True.
reserve_jobs_off == FALSE

reserve_jobs == TRUE

\* try_reserve: atomic insert-if-absent on the key (stage, key).
try_reserve(stage, key) ==
    ~ KeyPresent({<<j.stage, j.key>> : j \in jobs}, <<stage, key>>)

SetStatus(js, stage, key, owner, status, detail) ==
    {IF j.stage = stage /\ j.key = key /\ j.owner = owner
        THEN JobRecord(stage, key, status, owner, detail) ELSE j : j \in js}

mark_done(js, stage, key, owner) == SetStatus(js, stage, key, owner, "done", "")

mark_error_release(js, stage, key, owner, detail) ==
    {j \in js : ~ (j.stage = stage /\ j.key = key /\ j.owner = owner)}

mark_error(js, stage, key, owner, detail) ==
    SetStatus(js, stage, key, owner, "error", detail)

\* No delete is running.
Quiet == del = <<>>

\* ------------------------------------------------------------------ worker
\* The history of the current cycle with one more call, when it is recorded.
Logged(w, call) == IF observe THEN [log EXCEPT ![w] = Append(@, call)] ELSE log

\* main, lines 41-43: the loop test and the reset of the cycle's flag; line 52
\* when the loop is left.
While(w) ==
    /\ pc[w] = "while"
    /\ IF run_daemon[w]
          THEN /\ populated_at_least_one' = [populated_at_least_one EXCEPT ![w] = FALSE]
               /\ idx' = [idx EXCEPT ![w] = 1]
               /\ pc' = [pc EXCEPT ![w] = "for"]
               /\ log' = IF observe THEN [log EXCEPT ![w] = <<>>] ELSE log
               /\ ncycle' = IF observe /\ ncycle[w] < MaxCycles
                              THEN [ncycle EXCEPT ![w] = @ + 1] ELSE ncycle
               /\ UNCHANGED exit_code
          ELSE /\ pc' = [pc EXCEPT ![w] = "exit"]
               /\ exit_code' = [exit_code EXCEPT ![w] = <<0>>]
               /\ UNCHANGED <<populated_at_least_one, idx, log, ncycle>>
    /\ UNCHANGED <<db, jobs, config, slept, run_daemon, keys, compute, history, user>>

\* main, lines 44-47: progress() of the next relation.
Progress(w) ==
    /\ pc[w] = "for"
    /\ idx[w] <= Len(relations[w])
    /\ Quiet
    /\ LET todo == Cardinality(pending(stage_of(w), db)) IN
         /\ log' = Logged(w, <<"progress", stage_of(w), todo>>)
         /\ IF todo > 0
              THEN /\ populated_at_least_one' = [populated_at_least_one EXCEPT ![w] = TRUE]
                   /\ pc' = [pc EXCEPT ![w] = "populate"]
                   /\ UNCHANGED idx
              ELSE /\ idx' = [idx EXCEPT ![w] = idx[w] + 1]
                   /\ UNCHANGED <<populated_at_least_one, pc>>
    /\ UNCHANGED <<db, jobs, config, slept, exit_code, ncycle, run_daemon, keys,
                   compute, history, user>>

\* main, line 48: populate(reserve_jobs=True) fetches the pending keys.
Populate(w) ==
    /\ pc[w] = "populate"
    /\ Quiet
    /\ keys' = [keys EXCEPT ![w] = pending(stage_of(w), db)]
    /\ batch' = [batch EXCEPT ![w] = pending(stage_of(w), db)]
    /\ log' = Logged(w, <<"populate", stage_of(w), 0>>)
    /\ pc' = [pc EXCEPT ![w] = "reserve"]
    /\ UNCHANGED <<db, jobs, config, slept, exit_code, ncycle, loop, compute,
                   ncommit, earlier, user>>

\* The model follows unit ids up to MaxUnits.
WithinBounds(ops) == \A i \in 1..Len(ops) : ops[i][3].unit <= MaxUnits

\* populate: the next key is reserved and its compute starts.
ReserveSuccess(w) ==
    /\ pc[w] = "reserve"
    /\ Quiet
    /\ \E k \in keys[w] :
         /\ reserve_jobs => try_reserve(stage_of(w), k)
         /\ jobs' = IF reserve_jobs
                      THEN jobs \cup {JobRecord(stage_of(w), k, "reserved", w, "")}
                      ELSE jobs
         /\ keys' = [keys EXCEPT ![w] = keys[w] \ {k}]
         /\ cur' = [cur EXCEPT ![w] = k]
         /\ plan' = [plan EXCEPT ![w] = make_tuples(stage_of(w), k, db)]
         /\ WithinBounds(make_tuples(stage_of(w), k, db))
    /\ step' = [step EXCEPT ![w] = 1]
    /\ pc' = [pc EXCEPT ![w] = "make"]
    /\ UNCHANGED <<db, config, trace, loop, tx, history, user>>

\* populate: the next key is held by another record; it is skipped.
ReserveConflict(w) ==
    /\ pc[w] = "reserve"
    /\ Quiet
    /\ reserve_jobs
    /\ \E k \in keys[w] :
         /\ ~ try_reserve(stage_of(w), k)
         /\ keys' = [keys EXCEPT ![w] = keys[w] \ {k}]
    /\ UNCHANGED <<db, jobs, config, trace, pc, loop, compute, history, user>>

\* populate returns; the for loop moves on.
PopulateReturns(w) ==
    /\ pc[w] = "reserve"
    /\ keys[w] = {}
    /\ batch' = [batch EXCEPT ![w] = {}]
    /\ idx' = [idx EXCEPT ![w] = idx[w] + 1]
    /\ pc' = [pc EXCEPT ![w] = "for"]
    /\ UNCHANGED <<db, jobs, config, trace, run_daemon, populated_at_least_one, keys,
                   compute, ncommit, user>>

PopulateReturn(w) == PopulateReturns(w) /\ UNCHANGED earlier

\* The same step, with the keys of the call added to the history earlier.
PopulateReturnRecorded(w) ==
    /\ PopulateReturns(w)
    /\ earlier' = [earlier EXCEPT ![w] = @ \cup {<<stage_of(w), k>> : k \in batch[w]}]

\* What the error record says of the failure: whether rows had been inserted.
ErrorDetail(w) == IF tx[w] = EmptyDb THEN "no rows inserted" ELSE "rows rolled back"

\* The compute of the current key failed: the transaction is rolled back and
\* the key is recorded as errored; populate goes on with the next key.
FailureAborts(w) ==
    /\ tx' = [tx EXCEPT ![w] = EmptyDb]
    /\ jobs' = mark_error(jobs, stage_of(w), cur[w], w, ErrorDetail(w))
    /\ cur' = [cur EXCEPT ![w] = NoKey]
    /\ plan' = [plan EXCEPT ![w] = <<>>]
    /\ step' = [step EXCEPT ![w] = 0]
    /\ keys' = [keys EXCEPT ![w] = {}]
    /\ pc' = [pc EXCEPT ![w] = "reserve"]
    /\ UNCHANGED <<db, config, trace, loop, history, user>>

Failure(w) ==
    /\ tx' = [tx EXCEPT ![w] = EmptyDb]
    /\ jobs' = mark_error(jobs, stage_of(w), cur[w], w, ErrorDetail(w))
    /\ cur' = [cur EXCEPT ![w] = NoKey]
    /\ plan' = [plan EXCEPT ![w] = <<>>]
    /\ step' = [step EXCEPT ![w] = 0]
    /\ pc' = [pc EXCEPT ![w] = "reserve"]
    /\ UNCHANGED <<db, config, trace, loop, keys, history, user>>

\* populate(reserve_jobs=True) called as main calls it, without
\* suppress_errors: the error is recorded and the exception is handed on to
\* main, which does not catch it, so the process ends with status 1.
FailureRaises(w) ==
    /\ tx' = [tx EXCEPT ![w] = EmptyDb]
    /\ jobs' = mark_error(jobs, stage_of(w), cur[w], w, ErrorDetail(w))
    /\ cur' = [cur EXCEPT ![w] = NoKey]
    /\ plan' = [plan EXCEPT ![w] = <<>>]
    /\ step' = [step EXCEPT ![w] = 0]
    /\ pc' = [pc EXCEPT ![w] = "raised"]
    /\ exit_code' = [exit_code EXCEPT ![w] = <<1>>]
    /\ UNCHANGED <<db, config, slept, log, ncycle, loop, keys, history, user>>

\* Does the operation op of a _make_tuples raise, in worker w's transaction?
Raises(w, op) ==
    CASE op[1] = "insert" -> \/ IsDuplicate(View(w)[op[2]], op[2], op[3])
                             \/ MissingReference(View(w), op[2], op[3])
      [] op[1] = "fetch1" -> Cardinality(Restrict(View(w)[op[2]], {op[3]})) # 1
      [] op[1] = "notify" -> FALSE
      [] op[1] = "raise" -> TRUE

\* One operation of the running _make_tuples.
MakeStep(w) ==
    /\ pc[w] = "make"
    /\ step[w] <= Len(plan[w])
    /\ LET op == plan[w][step[w]] IN
         IF Raises(w, op)
           THEN Failure(w)
           ELSE /\ tx' = IF op[1] = "insert"
                            THEN [tx EXCEPT ![w][op[2]] = @ \cup {op[3]}]
                            ELSE tx
                /\ step' = [step EXCEPT ![w] = step[w] + 1]
                /\ UNCHANGED <<db, jobs, config, trace, pc, loop, keys, cur, plan,
                               history, user>>

\* Any operation of a compute may raise for a reason outside the model (the
\* scan file, the numerical code, the notification service).
ComputeFails(w) ==
    /\ pc[w] = "make"
    /\ step[w] <= Len(plan[w])
    /\ Failure(w)

\* The same failure when populate hands the exception on to its caller after
\* recording it: main calls populate without suppress_errors and without
\* try/except, so the exception ends the process.
PopulateRaises(w) ==
    /\ pc[w] = "make"
    /\ step[w] <= Len(plan[w])
    /\ FailureRaises(w)

\* _make_tuples returned: the transaction commits as a whole and the key is
\* marked done in the same step (the reservation invariant of section 3 of
\* the specification leaves no state between the two), or the storage rejects
\* the commit.
Commit(w) ==
    /\ pc[w] = "make"
    /\ step[w] > Len(plan[w])
    /\ IF \E t \in Tables : \E r \in tx[w][t] : IsDuplicate(db[t], t, r)
          THEN Failure(w)
          ELSE /\ db' = [t \in Tables |-> db[t] \cup tx[w][t]]
               /\ jobs' = mark_done(jobs, stage_of(w), cur[w], w)
               /\ ncommit' = [ncommit EXCEPT ![<<stage_of(w), cur[w]>>] = @ + 1]
               /\ tx' = [tx EXCEPT ![w] = EmptyDb]
               /\ cur' = [cur EXCEPT ![w] = NoKey]
               /\ plan' = [plan EXCEPT ![w] = <<>>]
               /\ step' = [step EXCEPT ![w] = 0]
               /\ pc' = [pc EXCEPT ![w] = "reserve"]
               /\ log' = Logged(w, <<"commit", stage_of(w), 0>>)
               /\ UNCHANGED <<config, slept, exit_code, ncycle, loop, keys, batch,
                              earlier, user>>

\* ------------------------------------------------------------------ startup
\* A relation name of args.relations is the sequence of its components
\* between the dots; relname.rsplit('.', 1) splits off the last one.
RelName(stage) == <<"pipeline", "reso", stage>>

\* The modules import_module finds, and the classes getattr finds in them.
Modules == {<<"pipeline", "reso">>}
Classes(p) == IF p = <<"pipeline", "reso">> THEN Stages ELSE {}

\* main, lines 24-39: the names are resolved in order into rels_cls, a dict
\* (a name given twice is kept once, at its first place). The result is
\* "ok" with the relations, "return 1" at the first name whose module or
\* class is missing, or "ValueError" at a name without a dot, whose rsplit
\* cannot be unpacked into p, m.
RECURSIVE resolve(_, _, _)
resolve(ns, i, rels) ==
    IF i > Len(ns) THEN [status |-> "ok", rels |-> rels]
    ELSE LET relname == ns[i]
             p == SubSeq(relname, 1, Len(relname) - 1)
             m == relname[Len(relname)]
         IN IF Len(relname) < 2 THEN [status |-> "ValueError", rels |-> rels]
            ELSE IF p \notin Modules THEN [status |-> "return 1", rels |-> rels]
            ELSE IF m \notin Classes(p) THEN [status |-> "return 1", rels |-> rels]
            ELSE resolve(ns, i + 1,
                         IF \E k \in 1..Len(rels) : rels[k] = m THEN rels
                         ELSE Append(rels, m))

\* A variant that leaves out the names it cannot resolve and goes on.
StartupSkips(w) ==
    /\ pc[w] = "start"
    /\ relations' = [relations EXCEPT ![w] =
                       resolve(SelectSeq(names[w],
                                         LAMBDA n : resolve(<<n>>, 1, <<>>).status = "ok"),
                               1, <<>>).rels]
    /\ pc' = [pc EXCEPT ![w] = "while"]
    /\ UNCHANGED <<db, jobs, daemon, names, t_min, t_max, observe, task, trace, loop, keys,
                   compute, history, user>>

\* main, lines 24-41: the start of the worker.
Startup(w) ==
    /\ pc[w] = "start"
    /\ LET r == resolve(names[w], 1, <<>>) IN
         IF r.status = "ok"
           THEN /\ relations' = [relations EXCEPT ![w] = r.rels]
                /\ pc' = [pc EXCEPT ![w] = "while"]
                /\ UNCHANGED exit_code
           ELSE /\ pc' = [pc EXCEPT ![w] = IF r.status = "ValueError"
                                              THEN "ValueError" ELSE "exit"]
                /\ exit_code' = [exit_code EXCEPT ![w] = <<1>>]
                /\ UNCHANGED relations
    /\ UNCHANGED <<db, jobs, daemon, names, t_min, t_max, observe, task, slept, log, ncycle,
                   loop, keys, compute, history, user>>

\* ------------------------------------------------------------------ end of the cycle
\* main, line 44 exhausted, then lines 49-51: the sleep of line 50 starts, or
\* np.random.randint raises and the exception leaves main; without a sleep
\* line 51 follows.
EndOfCycle(w) ==
    /\ pc[w] = "for"
    /\ idx[w] > Len(relations[w])
    /\ IF run_daemon[w] /\ ~ populated_at_least_one[w]
          THEN /\ IF randint(t_min[w], t_max[w]) = {}
                    THEN /\ pc' = [pc EXCEPT ![w] = "ValueError"]
                         /\ exit_code' = [exit_code EXCEPT ![w] = <<1>>]
                         /\ UNCHANGED slept
                    ELSE /\ \E d \in randint(t_min[w], t_max[w]) :
                              slept' = [slept EXCEPT ![w] = d]
                         /\ pc' = [pc EXCEPT ![w] = "sleep"]
                         /\ UNCHANGED exit_code
               /\ UNCHANGED run_daemon
          ELSE /\ run_daemon' = [run_daemon EXCEPT ![w] = daemon[w]]
               /\ pc' = [pc EXCEPT ![w] = "while"]
               /\ UNCHANGED <<slept, exit_code>>
    /\ UNCHANGED <<db, jobs, config, log, ncycle, populated_at_least_one, idx, keys,
                   compute, history, user>>

\* time.sleep returns; line 51.
WakeUp(w) ==
    /\ pc[w] = "sleep"
    /\ slept' = [slept EXCEPT ![w] = 0]
    /\ run_daemon' = [run_daemon EXCEPT ![w] = daemon[w]]
    /\ pc' = [pc EXCEPT ![w] = "while"]
    /\ UNCHANGED <<db, jobs, config, exit_code, log, ncycle, populated_at_least_one,
                   idx, keys, compute, history, user>>

WorkerNext(w) ==
    \/ While(w)
    \/ Progress(w)
    \/ Populate(w)
    \/ ReserveSuccess(w)
    \/ ReserveConflict(w)
    \/ PopulateReturn(w)
    \/ MakeStep(w)
    \/ ComputeFails(w)
    \/ Commit(w)
    \/ EndOfCycle(w)
    \/ WakeUp(w)

\* ------------------------------------------------------------------ users
\* A user sets the correction channel of a slice (CorrectionChannel is manual).
InsertCorrectionChannel(scan, slice) ==
    /\ Quiet
    /\ ~ IsDuplicate(db[T_CorrectionChannel], T_CorrectionChannel, SliceKey(scan, slice))
    /\ db' = [db EXCEPT ![T_CorrectionChannel] = @ \cup {SliceKey(scan, slice)}]
    /\ UNCHANGED <<jobs, config, trace, pc, loop, keys, compute, history, user>>

\* ------------------------------------------------------------------ delete
\* A running delete is a sequence of operations:
\*   op "delete": T().delete() on the relation rel, with T's override if any
\*   op "base":   BaseRelation.delete on the relation rel (the cascade)
\*   op "quick":  the removal of rows from one table, a step of a cascade
\*   op "done":   the user's delete has returned
\* A relation is a table t restricted by key, or by the rows of table by
\* restricted by key; it is evaluated when the operation runs.
Rel(t, by, key) == [t |-> t, by |-> by, key |-> key]
NoRel == Rel("", "", NoKey)

Op(op, rel, rows, root) == [op |-> op, rel |-> rel, rows |-> rows, root |-> root]

Eval(rel, d) ==
    IF rel.by = "" THEN Restrict(d[rel.t], {rel.key})
    ELSE Restrict(d[rel.t], Restrict(d[rel.by], {rel.key}))

\* The rows of table t that reference a row of del[p], for a referenced table p.
Dependents(t, d, dels) ==
    {r \in d[t] : \E p \in References(t) : \E x \in dels[p] :
        Proj(r, PrimaryKey(p)) = Proj(x, PrimaryKey(p))}

\* The rows a cascade from the rows root of table t0 removes from each table:
\* the tables are visited in declaration order, referenced tables first.
RECURSIVE CascadeSets(_, _, _)
CascadeSets(i, d, dels) ==
    IF i > Len(TableOrder) THEN dels
    ELSE LET t == TableOrder[i] IN
         CascadeSets(i + 1, d, [dels EXCEPT ![t] = @ \cup Dependents(t, d, dels)])

Cascade(t0, root, d) == CascadeSets(1, d, [EmptyDb EXCEPT ![t0] = root])

\* The reservation records of stage t a removal of rows covers.
JobsOf(t, rows, js) == {j \in js : j.stage = t /\ \E r \in rows : Matches(j.key, r)}

\* Table t is t0 or references it, directly or through other tables.
RECURSIVE Descends(_, _)
Descends(t, t0) == t = t0 \/ \E p \in References(t) : Descends(p, t0)

\* The steps of the cascade from table t0, dependent tables first and the
\* target last.
RECURSIVE QuickSteps(_, _, _, _, _)
QuickSteps(i, t0, dels, root, js) ==
    IF i = 0 THEN <<>>
    ELSE LET t == TableOrder[i] IN
         (IF dels[t] # {} \/ (Descends(t, t0) /\ JobsOf(t, root, js) # {})
            THEN <<Op("quick", Rel(t, "", NoKey), dels[t], root)>>
            ELSE <<>>)
         \o QuickSteps(i - 1, t0, dels, root, js)

BaseRelation_delete(rel, d, js) ==
    LET root == Eval(rel, d) IN
    IF root = {} THEN <<>>
    ELSE QuickSteps(Len(TableOrder), rel.t, Cascade(rel.t, root, d), root, js)

\* The overridden deletes, as the calls they make in order; self is the
\* relation T restricted by key.
ScanSet_delete_parent_first(key) ==
    <<Op("base", Rel(T_ScanSet, "", key), {}, {}),
      Op("base", Rel(T_Unit, T_ScanSet, key), {}, {})>>

ScanSet_delete(key) ==
    <<Op("base", Rel(T_Unit, T_ScanSet, key), {}, {}),
      Op("base", Rel(T_ScanSet, "", key), {}, {})>>

Activity_delete(key) ==
    <<Op("base", Rel(T_ActivityTrace, T_Activity, key), {}, {}),
      Op("base", Rel(T_Activity, "", key), {}, {})>>

NMF_delete(key) ==
    <<Op("base", Rel(T_Segmentation, T_NMF, key), {}, {}),
      Op("base", Rel(T_NMF, "", key), {}, {})>>

ManualSegmentation_delete(key) ==
    <<Op("base", Rel(T_Segmentation, T_ManualSegmentation, key), {}, {}),
      Op("base", Rel(T_ManualSegmentation, "", key), {}, {})>>

Segmentation_delete(key) ==
    <<Op("base", Rel(T_ManualSegmentation, T_Segmentation, key), {}, {}),
      Op("base", Rel(T_NMF, T_Segmentation, key), {}, {}),
      Op("base", Rel(T_Segmentation, "", key), {}, {})>>

delete(t, key) ==
    CASE t = T_ScanSet -> ScanSet_delete(key)
      [] t = T_Activity -> Activity_delete(key)
      [] t = T_NMF -> NMF_delete(key)
      [] t = T_ManualSegmentation -> ManualSegmentation_delete(key)
      [] t = T_Segmentation -> Segmentation_delete(key)
      [] OTHER -> <<Op("base", Rel(t, "", key), {}, {})>>

\* The tables a user deletes from in this model.
DeleteTargets == {T_ScanInfo, T_MotionCorrection, T_NMF, T_Segmentation, T_ScanSet,
                  T_Activity}

\* A user calls (T() & key).delete() for the key of a row of T, while no
\* transaction is open.
DeleteStart(t, key) ==
    /\ Quiet
    /\ ndel < MaxDeletes
    /\ ndel' = ndel + 1
    /\ \A w \in Workers : pc[w] # "make"
    /\ key \in {Proj(r, PrimaryKey(t)) : r \in db[t]}
    /\ del' = delete(t, key) \o <<Op("done", Rel(t, "", key), {}, {})>>
    /\ UNCHANGED <<db, jobs, config, trace, pc, loop, keys, compute, history>>

\* A call of BaseRelation.delete starts: the rows to remove are determined.
DeleteCascade ==
    /\ del # <<>>
    /\ Head(del).op = "base"
    /\ del' = BaseRelation_delete(Head(del).rel, db, jobs) \o Tail(del)
    /\ UNCHANGED <<db, jobs, config, trace, pc, loop, keys, compute, history, ndel>>

\* One table of a cascade is cleared of the rows to remove, with the
\* reservation records of these rows.
DeleteQuick ==
    /\ del # <<>>
    /\ Head(del).op = "quick"
    /\ LET t == Head(del).rel.t IN
         /\ db' = [db EXCEPT ![t] = @ \ Head(del).rows]
         /\ jobs' = jobs \ JobsOf(t, Head(del).rows \cup Head(del).root, jobs)
         /\ ncommit' = [j \in JobIds |->
                          IF j[1] = t /\ \E r \in Head(del).rows : Matches(j[2], r)
                            THEN 0 ELSE ncommit[j]]
    /\ del' = Tail(del)
    /\ UNCHANGED <<config, trace, pc, loop, keys, compute, batch, earlier, ndel>>

\* The user's delete returns.
DeleteReturn ==
    /\ del # <<>>
    /\ Head(del).op = "done"
    /\ del' = Tail(del)
    /\ UNCHANGED <<db, jobs, config, trace, pc, loop, keys, compute, history, ndel>>

DeleteNext ==
    \/ \E t \in DeleteTargets : \E key \in KeySpace(T_Activity) \cup KeySpace(T_ScanSet)
                                          \cup KeySpace(T_NMF) \cup KeySpace(T_ScanInfo) :
          DeleteStart(t, key)
    \/ DeleteCascade
    \/ DeleteQuick
    \/ DeleteReturn

\* ------------------------------------------------------------------ specification
WorkerInit ==
    /\ run_daemon = [w \in Workers |-> TRUE]
    /\ populated_at_least_one = [w \in Workers |-> FALSE]
    /\ idx = [w \in Workers |-> 1]
    /\ keys = [w \in Workers |-> {}]
    /\ cur = [w \in Workers |-> NoKey]
    /\ plan = [w \in Workers |-> <<>>]
    /\ step = [w \in Workers |-> 0]
    /\ tx = [w \in Workers |-> EmptyDb]
    /\ ncommit = [j \in JobIds |-> 0]
    /\ batch = [w \in Workers |-> {}]
    /\ earlier = [w \in Workers |-> {}]
    /\ del = <<>>
    /\ ndel = 0
    /\ slept = [w \in Workers |-> 0]
    /\ log = [w \in Workers |-> <<>>]
    /\ ncycle = [w \in Workers |-> 0]

WorkersStart == pc = [w \in Workers |-> "while"]

\* No call of estimate_num_components is followed.
NotCalled == [raises |-> "not called", value |-> <<>>]

NoTask ==
    /\ compartment = "soma"
    /\ um_height = 0
    /\ um_width = 0
    /\ estimate = NotCalled

\* The arguments of workers that have resolved their relations, with a
\* sleep of one duration; no history of the cycles is kept.
ArgsResolved ==
    /\ names = [w \in Workers |->
                  [i \in 1..Len(relations[w]) |-> RelName(relations[w][i])]]
    /\ t_min = [w \in Workers |-> 1]
    /\ t_max = [w \in Workers |-> 2]
    /\ observe = FALSE
    /\ exit_code = [w \in Workers |-> IF pc[w] = "exit" THEN <<0>> ELSE <<>>]

\* The start of the pipeline: empty tables, every worker configured with the
\* first three stages, worker 1 a daemon and the others single-pass.
Init ==
    /\ db = EmptyDb
    /\ jobs = {}
    /\ relations = [w \in Workers |->
                      <<T_ScanInfo, T_RasterCorrection, T_MotionCorrection>>]
    /\ daemon = [w \in Workers |-> w = 1]
    /\ WorkerInit
    /\ WorkersStart
    /\ ArgsResolved
    /\ NoTask

Next ==
    \/ \E w \in Workers : WorkerNext(w)
    \/ \E scan \in Scans : \E slice \in 1..num_fields(scan) :
          InsertCorrectionChannel(scan, slice)

Spec == Init /\ [][Next]_vars

\* ------------------------------------------------------------------ segmentation and deletes
\* The tables after the operations of a compute have been committed.
RECURSIVE Apply(_, _, _)
Apply(d, ops, i) ==
    IF i > Len(ops) THEN d
    ELSE Apply(IF ops[i][1] = "insert"
                 THEN [d EXCEPT ![ops[i][2]] = @ \cup {ops[i][3]}] ELSE d,
               ops, i + 1)

\* The first three stages populated for scan 1, whose slices all have a
\* correction channel and a segmentation task.
UpstreamDb ==
    LET d0 == [EmptyDb EXCEPT
                 ![T_CorrectionChannel] = {SliceKey(1, i) : i \in 1..num_fields(1)},
                 ![T_SegmentationTask] = {SliceKey(1, i) : i \in 1..num_fields(1)}]
        d1 == Apply(d0, ScanInfo_make_tuples(ScanKey(1), d0), 1)
        d2 == Apply(d1, RasterCorrection_make_tuples(ScanKey(1), d1), 1)
    IN Apply(d2, MotionCorrection_make_tuples(ScanKey(1), d2), 1)

\* Worker 1 is a daemon on the stages from segmentation on; the other
\* workers are not started. A user deletes rows.
InitSeg ==
    /\ db = UpstreamDb
    /\ jobs = {JobRecord(stage, ScanKey(1), "done", 1, "") :
                  stage \in {T_ScanInfo, T_RasterCorrection, T_MotionCorrection}}
    /\ relations = [w \in Workers |->
                      IF w = 1 THEN <<T_NMF, T_Calcium, T_ScanSet, T_Activity>> ELSE <<>>]
    /\ daemon = [w \in Workers |-> w = 1]
    /\ WorkerInit
    /\ pc = [w \in Workers |-> IF w = 1 THEN "while" ELSE "exit"]
    /\ ArgsResolved
    /\ NoTask

NextSeg ==
    \/ WorkerNext(1)
    \/ DeleteNext

SpecSeg == InitSeg /\ [][NextSeg]_vars

\* ------------------------------------------------------------------ properties of Spec
\* The fields (slices) the scan file of a scan holds, as slice keys.
FieldsOf(scan) == {SliceKey(scan, i) : i \in 1..num_fields(scan)}

RowsOf(t, scan) == {r \in db[t] : r.scan = scan}

RecordsOf(stage, key) == {j \in jobs : j.stage = stage /\ j.key = key}

\* C1: for every stage and key, however many workers run populate with job
\* reservation, the number of successful commits of the key is 0 or 1.
C1_AtMostOneCommit == \A j \in JobIds : ncommit[j] <= 1

\* A key has been committed while another worker, whose populate call had
\* fetched it as pending, has still to visit it.
C1_Witness ==
    \E w \in Workers : \E k \in keys[w] :
        /\ pc[w] = "reserve"
        /\ ncommit[<<stage_of(w), k>>] = 1
        /\ \E j \in RecordsOf(stage_of(w), k) : j.owner # w /\ j.status = "done"

C2_OneHolder ==
    /\ \A j1, j2 \in jobs : (j1.stage = j2.stage /\ j1.key = j2.key) => j1 = j2
    /\ \A w \in Workers :
          pc[w] = "make" =>
             JobRecord(stage_of(w), cur[w], "reserved", w, "") \in jobs
    /\ \A w1, w2 \in Workers :
          (w1 # w2 /\ pc[w1] = "make" /\ pc[w2] = "make") =>
             <<stage_of(w1), cur[w1]>> # <<stage_of(w2), cur[w2]>>

\* A worker skips a key: its populate call stays between two keys and has
\* one key less to visit.
Skips(w) ==
    /\ pc[w] = "reserve"
    /\ pc'[w] = "reserve"
    /\ keys'[w] # keys[w]

C2_SkipHasNoEffect ==
    \A w \in Workers : Skips(w) =>
        /\ db' = db
        /\ jobs' = jobs
        /\ tx' = tx
        /\ \E k \in keys[w] :
              /\ keys'[w] = keys[w] \ {k}
              /\ \E j \in RecordsOf(stage_of(w), k) : j.owner # w \/ j.status # "reserved"

\* C2: try_reserve is mutually exclusive: of the attempts on one (stage,
\* key) exactly one succeeds, so a key has one record and one worker
\* computing it; every other caller skips the key and leaves the tables
\* and the reservation table as they were.
C2_MutualExclusion == []C2_OneHolder /\ [][C2_SkipHasNoEffect]_vars

\* Two workers have fetched the same key; one holds it and computes it, the
\* other has still to attempt it.
C2_Witness ==
    \E w1, w2 \in Workers :
        /\ w1 # w2
        /\ pc[w1] = "make"
        /\ pc[w2] = "reserve"
        /\ stage_of(w1) = stage_of(w2)
        /\ cur[w1] \in keys[w2]

\* C3: a ResultSet is committed atomically: in every state the tables hold,
\* for a key, the parent row with all of its part rows or none of them, and
\* a compute that failed after inserting rows has left no row of its key.
C3_AtomicCommit ==
    /\ \A s \in Scans :
          IF ScanKey(s) \in db[T_ScanInfo]
            THEN /\ RowsOf(T_Slice, s) = FieldsOf(s)
                 /\ RowsOf(T_QuantalSize, s) = FieldsOf(s)
            ELSE /\ RowsOf(T_Slice, s) = {}
                 /\ RowsOf(T_QuantalSize, s) = {}
    /\ \A s \in Scans : RowsOf(T_MotionCorrection, s) \in {{}, FieldsOf(s)}
    /\ \A j \in jobs :
          j.status = "error" =>
             \A t \in Tables : \A r \in db[t] :
                 (t = j.stage \/ j.stage \in References(t)) => ~ Matches(r, j.key)

\* The compute of a scan with several fields failed after it had inserted
\* rows, while the ResultSet of another scan is committed.
C3_Witness ==
    \E j \in jobs :
        /\ j.stage = T_ScanInfo
        /\ j.status = "error"
        /\ j.error_detail = "rows rolled back"
        /\ num_fields(j.key.scan) > 1
        /\ \E s \in Scans : s # j.key.scan /\ ScanKey(s) \in db[T_ScanInfo]

\* The populate call of worker w has visited every key it fetched.
CallOver(w) == pc[w] = "reserve" /\ keys[w] = {} /\ batch[w] # {}

done(stage) ==
    {j.key : j \in {x \in jobs : x.stage = stage /\ x.status = "done"}}
    \cup {k \in KeySpace(stage) : Restrict(db[stage], {k}) # {}}

\* C7: in every state and for every stage, no key pending(stage) returns
\* is done for the stage; this includes MotionCorrection, whose key source
\* is per scan and whose rows are per slice.
C7_Disjointness == \A stage \in Stages : pending(stage, db) \cap done(stage) = {}

\* MotionCorrection is done for a scan with several slices while another
\* scan is pending for it.
C7_Witness ==
    \E s \in Scans :
        /\ num_fields(s) > 1
        /\ ScanKey(s) \in done(T_MotionCorrection)
        /\ RowsOf(T_MotionCorrection, s) = FieldsOf(s)
        /\ pending(T_MotionCorrection, db) # {}

\* C10: a worker sleeps only in daemon mode and only after a cycle in which
\* no stage had todo > 0; a worker started without --daemon never sleeps.
C10_SleepsIffDaemonAndIdle ==
    /\ \A w \in Workers :
          pc[w] = "sleep" => daemon[w] /\ ~ populated_at_least_one[w]
    /\ \A w \in Workers : ~ daemon[w] => pc[w] # "sleep"

\* ------------------------------------------------------------------ properties of SpecSeg
\* The tables a stage's _make_tuples fills besides its own and its parts:
\* NMF._make_tuples inserts the Segmentation and Calcium rows of its key.
WrittenBy(t) == IF t \in {T_Segmentation, T_Calcium} THEN {T_NMF} ELSE {}

\* The master table of a part table that does not reference its master.
Master(t) ==
    CASE t = T_Unit -> {T_ScanSet}
      [] t = T_ActivityTrace -> {T_Activity}
      [] OTHER -> {}

\* Table t is reachable downstream of t0: through the tables it references
\* and the stages that write it.
RECURSIVE Downstream(_, _)
Downstream(t, t0) ==
    t = t0 \/ \E p \in References(t) \cup WrittenBy(t) \cup Master(t) : Downstream(p, t0)

\* The user's delete has removed everything it removes and has yet to return.
DeleteOver == del # <<>> /\ Head(del).op = "done"

\* C5: after the delete of key K from stage S completes, no stage reachable
\* downstream of S holds a row, parent or part, whose key restricts to K.
C5_CascadeComplete ==
    DeleteOver =>
        \A t \in Tables :
            Downstream(t, Head(del).rel.t) => Restrict(db[t], {Head(del).rel.key}) = {}

\* Every row has the rows it depends on: the rows it references and, for a
\* part row, its master row.
NoOrphan ==
    \A t \in Tables : \A r \in db[t] : \A p \in References(t) \cup Master(t) :
        \E x \in db[p] : Matches(Proj(x, PrimaryKey(p)), r)

C9_ReservationInvariant ==
    ndel = 0 =>
        \A stage \in Stages : \A k \in KeySpace(stage) :
            /\ Cardinality({j \in RecordsOf(stage, k) :
                                j.status \in {"reserved", "done"}}) <= 1
            /\ (\E j \in RecordsOf(stage, k) : j.status = "done")
                  <=> (\E r \in db[stage] : Proj(r, PrimaryKey(stage)) = k
                                           \/ (stage = T_MotionCorrection /\ Matches(r, k)))

\* ------------------------------------------------------------------ repeated populate
\* A single daemon worker on the first two stages, with the correction
\* channels of the first scan set and nothing else changing the tables.
InitTwice ==
    /\ db = [EmptyDb EXCEPT ![T_CorrectionChannel] = FieldsOf(1)]
    /\ jobs = {}
    /\ relations = [w \in Workers |->
                      IF w = 1 THEN <<T_ScanInfo, T_RasterCorrection>> ELSE <<>>]
    /\ daemon = [w \in Workers |-> w = 1]
    /\ WorkerInit
    /\ pc = [w \in Workers |-> IF w = 1 THEN "while" ELSE "exit"]
    /\ ArgsResolved
    /\ NoTask

NextTwice ==
    \/ While(1)
    \/ Progress(1)
    \/ Populate(1)
    \/ ReserveSuccess(1)
    \/ ReserveConflict(1)
    \/ PopulateReturnRecorded(1)
    \/ MakeStep(1)
    \/ ComputeFails(1)
    \/ Commit(1)
    \/ EndOfCycle(1)
    \/ WakeUp(1)

SpecTwice == InitTwice /\ [][NextTwice]_vars

\* The running populate call of w fetched only keys an earlier call of w on
\* the same stage had fetched: it is a repeated call.
Repeated(w) ==
    /\ pc[w] \in {"reserve", "make"}
    /\ batch[w] # {}
    /\ \A k \in batch[w] : <<stage_of(w), k>> \in earlier[w]

ProgressRaises(w) ==
    /\ pc[w] = "for"
    /\ idx[w] <= Len(relations[w])
    /\ Quiet
    /\ log' = Logged(w, <<"filter error", stage_of(w), 0>>)
    /\ pc' = [pc EXCEPT ![w] = "raised"]
    /\ exit_code' = [exit_code EXCEPT ![w] = <<1>>]
    /\ UNCHANGED <<db, jobs, config, slept, ncycle, loop, keys, compute, history, user>>

\* Key Source Resolver, on a key-source filter that raises during a poll:
\* the stage is treated as having no pending keys for that poll.
FilterRaises(w) ==
    /\ pc[w] = "for"
    /\ idx[w] <= Len(relations[w])
    /\ Quiet
    /\ log' = Logged(w, <<"filter error", stage_of(w), 0>>)
    /\ idx' = [idx EXCEPT ![w] = idx[w] + 1]
    /\ UNCHANGED <<db, jobs, config, slept, exit_code, ncycle, pc, run_daemon,
                   populated_at_least_one, keys, compute, history, user>>

\* The positions at which the process has ended.
Ended == {"exit", "ValueError", "raised", "killed"}

\* The status of a process a stop signal ends: main installs no handler and
\* catches no KeyboardInterrupt, so SIGINT ends it with the interpreter's
\* status for an uncaught exception or for the signal, and SIGTERM with the
\* signal's.
StopStatus(signal) == IF signal = "SIGINT" THEN {1, 130} ELSE {143}

\* main, lines 41-56: a stop signal arrives; the open transaction is lost
\* with the connection.
Stop(w) ==
    /\ pc[w] \notin Ended
    /\ \E signal \in {"SIGINT", "SIGTERM"} : \E status \in StopStatus(signal) :
          exit_code' = [exit_code EXCEPT ![w] = <<status>>]
    /\ pc' = [pc EXCEPT ![w] = "killed"]
    /\ tx' = [tx EXCEPT ![w] = EmptyDb]
    /\ slept' = [slept EXCEPT ![w] = 0]
    /\ UNCHANGED <<db, jobs, config, log, ncycle, loop, keys, cur, plan, step,
                   history, user>>

\* The names a worker can be given: two stages, a class the module does not
\* have, a module that does not exist, and a name without a dot.
NameChoices ==
    {RelName(T_ScanInfo), RelName(T_RasterCorrection), <<"pipeline", "reso", "Nope">>,
     <<"pipeline", "nope", T_ScanInfo>>, <<T_ScanInfo>>}

NameLists == UNION {[1..n -> NameChoices] : n \in 1..MaxNames}

\* Worker 1 is started with any list of names, with or without --daemon and
\* with any t_min and t_max; the correction channels of the first scan are
\* set. The other workers are not started.
InitMain ==
    /\ db = [EmptyDb EXCEPT ![T_CorrectionChannel] =
                              {SliceKey(1, i) : i \in 1..num_fields(1)}]
    /\ jobs = {}
    /\ relations = [w \in Workers |-> <<>>]
    /\ \E d \in BOOLEAN : daemon = [w \in Workers |-> w = 1 /\ d]
    /\ \E ns \in NameLists : names = [w \in Workers |-> IF w = 1 THEN ns ELSE <<>>]
    /\ \E lo \in 1..MaxTime : t_min = [w \in Workers |-> IF w = 1 THEN lo ELSE 1]
    /\ \E hi \in 1..MaxTime : t_max = [w \in Workers |-> IF w = 1 THEN hi ELSE 2]
    /\ observe = TRUE
    /\ WorkerInit
    /\ pc = [w \in Workers |-> IF w = 1 THEN "start" ELSE "exit"]
    /\ exit_code = [w \in Workers |-> IF w = 1 THEN <<>> ELSE <<0>>]
    /\ NoTask

NextMain ==
    \/ Startup(1)
    \/ WorkerNext(1)
    \/ PopulateRaises(1)
    \/ FilterRaises(1)
    \/ ProgressRaises(1)
    \/ Stop(1)

SpecMain == InitMain /\ [][NextMain]_vars

\* ------------------------------------------------------------------ properties of SpecMain
\* The names of worker w all resolve.
NamesResolve(w) == resolve(names[w], 1, <<>>).status = "ok"

\* The stages worker w has queried in the current cycle, in order.
Queried(w) ==
    LET polls == SelectSeq(log[w], LAMBDA e : e[1] \in {"progress", "filter error"})
    IN [i \in 1..Len(polls) |-> polls[i][2]]

\* A key-source filter has raised in the current cycle of worker w.
FilterFailed(w) == \E i \in 1..Len(log[w]) : log[w][i][1] = "filter error"

\* C11: without --daemon, once the names resolve and the calls return, the
\* worker performs exactly one cycle, in which every configured stage is
\* queried exactly once, then stops with exit code 0, whether or not work
\* was found.
C11_SinglePass ==
    \A w \in Workers :
        (~ daemon[w] /\ NamesResolve(w) /\ names[w] # <<>> /\ ~ FilterFailed(w)) =>
            /\ ncycle[w] <= 1
            /\ pc[w] \in {"exit", "ValueError"} =>
                  /\ exit_code[w] = <<0>>
                  /\ ncycle[w] = 1
                  /\ Queried(w) = relations[w]

\* C12: for all t_min <= t_max, every sleep the worker performs between
\* polls has a duration d with t_min <= d <= t_max.
C12_BackoffBound ==
    \A w \in Workers :
        (pc[w] = "sleep" /\ t_min[w] <= t_max[w]) =>
            (t_min[w] <= slept[w] /\ slept[w] <= t_max[w])

\* A daemon sleeps, after a cycle that found no work, for a duration above
\* t_min.
C12_Witness ==
    \E w \in Workers :
        /\ daemon[w]
        /\ pc[w] = "sleep"
        /\ ~ populated_at_least_one[w]
        /\ ~ FilterFailed(w)
        /\ t_min[w] < slept[w]
        /\ slept[w] < t_max[w]

\* Worker w has queried every stage in the current cycle and each had
\* todo = 0.
CycleIdle(w) ==
    /\ Queried(w) = relations[w]
    /\ \A i \in 1..Len(log[w]) : log[w][i][1] = "progress" /\ log[w][i][3] = 0

\* C13: with t_min = t_max and every stage at todo = 0, a daemon worker
\* sleeps exactly t_min seconds after each poll and polls again: at the end
\* of such a cycle it is asleep for t_min or on its way to the next poll, and
\* it has not ended.
C13_EqualBounds ==
    \A w \in Workers :
        (daemon[w] /\ t_min[w] = t_max[w] /\ NamesResolve(w) /\ CycleIdle(w)) =>
            /\ pc[w] \in Ended => pc[w] = "killed"
            /\ pc[w] = "sleep" => slept[w] = t_min[w]

\* C14: if a name of the stage list cannot be resolved (missing module or
\* missing class), the worker ends with status 1 before progress or
\* populate has been called on any stage, the stages named before the bad
\* name included.
C14_ConfigurationErrorFatal ==
    \A w \in Workers :
        (names[w] # <<>> /\ ~ NamesResolve(w)) =>
            /\ pc[w] \in {"start", "exit", "ValueError", "killed"}
            /\ pc[w] \in {"exit", "ValueError"} => exit_code[w] = <<1>>
            /\ log[w] = <<>>
            /\ ncycle[w] = 0
            /\ relations[w] = <<>>
            /\ \A j \in jobs : j.owner # w

\* A worker given a valid name followed by a name whose class is missing
\* has returned 1.
C14_Witness ==
    \E w \in Workers :
        /\ Len(names[w]) = 2
        /\ resolve(<<names[w][1]>>, 1, <<>>).status = "ok"
        /\ resolve(<<names[w][2]>>, 1, <<>>).status = "return 1"
        /\ pc[w] = "exit"
        /\ exit_code[w] = <<1>>

\* The current cycle of worker w is over.
CycleOver(w) ==
    /\ ncycle[w] >= 1
    /\ \/ pc[w] \in {"sleep", "while", "exit", "ValueError"}
       \/ pc[w] = "for" /\ idx[w] > Len(relations[w])

\* A compute of worker w has failed.
HasFailed(w) == \E j \in jobs : j.owner = w /\ j.status = "error"

\* The last call of the current cycle of worker w.
LastCall(w) == IF log[w] = <<>> THEN "none" ELSE log[w][Len(log[w])][1]

\* C15: a compute failure for a key never stops the worker: the process
\* does not end inside a populate call, a cycle that is over has queried
\* every configured stage, and a daemon that has had a failure and has not
\* ended can take its next step.
C15_FailureDoesNotStopWorker ==
    \A w \in Workers :
        /\ ~ (pc[w] = "raised" /\ LastCall(w) = "populate")
        /\ (CycleOver(w) /\ pc[w] # "raised") => Queried(w) = relations[w]
        /\ (daemon[w] /\ HasFailed(w) /\ pc[w] \notin Ended) => ENABLED WorkerNext(w)

\* ------------------------------------------------------------------ notification and frame
\* The next operation of the compute of worker w is its notification hook.
AtNotify(w) ==
    /\ pc[w] = "make"
    /\ step[w] <= Len(plan[w])
    /\ plan[w][step[w]][1] = "notify"

\* C16: a failure of the notification hook for (stage, key) neither rolls
\* back the rows of the key nor makes the key recorded as failed: no step
\* taken when the hook is the next operation leaves an error record for the
\* key or discards the rows inserted for it.
C16_NotifyFailureHarmless ==
    [][\A w \in Workers : AtNotify(w) =>
          /\ ~ \E j \in jobs' : j.stage = stage_of(w) /\ j.key = cur[w] /\ j.status = "error"
          /\ tx'[w] = tx[w]]_vars

\* The tables a stage's compute may write: its own and its part tables.
OwnTables(stage) ==
    CASE stage = T_ScanInfo -> {T_ScanInfo, T_Slice, T_QuantalSize}
      [] stage = T_NMF -> {T_NMF, T_Parameters, T_BackgroundComponents, T_ARCoefficients}
      [] stage = T_Calcium -> {T_Calcium, T_CalciumTrace}
      [] stage = T_ScanSet -> {T_ScanSet, T_Unit}
      [] stage = T_Activity -> {T_Activity, T_ActivityTrace}
      [] OTHER -> {stage}

\* C17: no stage's compute inserts rows belonging to another stage: the
\* rows a running compute has inserted are rows of its own stage and parts.
C17_ComputeFrame ==
    \A w \in Workers :
        pc[w] = "make" => \A t \in Tables : tx[w][t] # {} => t \in OwnTables(stage_of(w))

\* ------------------------------------------------------------------ filter errors
\* The stages whose key-source filter raised in the current cycle of worker w.
FilterFailedStages(w) ==
    {log[w][i][2] : i \in {n \in 1..Len(log[w]) : log[w][n][1] = "filter error"}}

\* The stages worker w has populated in the current cycle.
Populated(w) ==
    {log[w][i][2] : i \in {n \in 1..Len(log[w]) : log[w][n][1] = "populate"}}

\* C18: when the key-source filter of a stage raises during a poll, the
\* stage is treated as having zero pending keys for that poll (it is not
\* populated in that cycle), the other stages are still polled (a cycle that
\* is over has queried every configured stage), and the error does not end
\* the worker.
C18_FilterErrorIsZeroPending ==
    \A w \in Workers :
        FilterFailed(w) =>
            /\ FilterFailedStages(w) \cap Populated(w) = {}
            /\ ~ (pc[w] = "raised" /\ LastCall(w) = "filter error")
            /\ (CycleOver(w) /\ pc[w] # "raised") => Queried(w) = relations[w]

\* ------------------------------------------------------------------ raster correction eligibility
\* C19: a scan key is in the key source of RasterCorrection if and only if
\* the scan has a ScanInfo row and every slice of the scan recorded in
\* ScanInfo.Slice has a CorrectionChannel row.
C19_RasterCorrectionEligibility ==
    \A s \in Scans :
        ScanKey(s) \in RasterCorrection_key_source(db) <=>
            /\ ScanKey(s) \in db[T_ScanInfo]
            /\ \A r \in RowsOf(T_Slice, s) : r \in db[T_CorrectionChannel]

\* A scan with ScanInfo and two slices, one of them without a correction
\* channel, is not eligible and RasterCorrection has not been computed for
\* it.
C19_Witness ==
    \E s \in Scans :
        /\ ScanKey(s) \in db[T_ScanInfo]
        /\ Cardinality(RowsOf(T_Slice, s)) = 2
        /\ Cardinality(RowsOf(T_Slice, s) \cap db[T_CorrectionChannel]) = 1
        /\ ScanKey(s) \notin RasterCorrection_key_source(db)
        /\ ScanKey(s) \notin db[T_RasterCorrection]

\* ------------------------------------------------------------------ stop signal
\* C20: in daemon mode, a worker stopped by an external signal while
\* polling, running or sleeping ends with exit code 0.
C20_StopSignalExitsZero ==
    \A w \in Workers :
        (daemon[w] /\ ncycle[w] >= 1 /\ pc[w] = "killed") => exit_code[w] = <<0>>

\* ------------------------------------------------------------------ paired segmentation rows and failing deletes
\* A user inserts a manual segmentation of a slice together with its
\* Segmentation row (extract_method 1).
InsertManualSegmentation(scan, slice) ==
    LET row == [SliceKey(scan, slice) EXCEPT !.method = 1] IN
    /\ Quiet
    /\ ~ IsDuplicate(db[T_ManualSegmentation], T_ManualSegmentation, row)
    /\ ~ IsDuplicate(db[T_Segmentation], T_Segmentation, row)
    /\ db' = [db EXCEPT ![T_ManualSegmentation] = @ \cup {row},
                        ![T_Segmentation] = @ \cup {row}]
    /\ UNCHANGED <<jobs, config, trace, pc, loop, keys, compute, history, user>>

\* The relation the user's running delete was called on.
DeleteTarget == del[Len(del)].rel

\* A call of BaseRelation.delete fails or is declined at its confirmation:
\* it removes nothing, the calls after it are not made, and the user's
\* delete ends with the failure.
DeleteAbort ==
    /\ del # <<>>
    /\ Head(del).op = "base"
    /\ del' = <<Op("failed", DeleteTarget, {}, {})>>
    /\ UNCHANGED <<db, jobs, config, trace, pc, loop, keys, compute, history, ndel>>

\* The failure is reported to the user.
DeleteReportsFailure ==
    /\ del # <<>>
    /\ Head(del).op = "failed"
    /\ del' = Tail(del)
    /\ UNCHANGED <<db, jobs, config, trace, pc, loop, keys, compute, history, ndel>>

\* The tables with an overridden delete that keeps a pair of rows together.
PairTargets == {T_NMF, T_ManualSegmentation, T_Segmentation}

\* Worker 1 is a daemon on NMF over the populated first three stages; a user
\* inserts manual segmentations and deletes from the paired tables, and a
\* delete can fail.
InitPair ==
    /\ db = UpstreamDb
    /\ jobs = {JobRecord(stage, ScanKey(1), "done", 1, "") :
                  stage \in {T_ScanInfo, T_RasterCorrection, T_MotionCorrection}}
    /\ relations = [w \in Workers |-> IF w = 1 THEN <<T_NMF>> ELSE <<>>]
    /\ daemon = [w \in Workers |-> w = 1]
    /\ WorkerInit
    /\ pc = [w \in Workers |-> IF w = 1 THEN "while" ELSE "exit"]
    /\ ArgsResolved
    /\ NoTask

NextPair ==
    \/ WorkerNext(1)
    \/ \E slice \in 1..num_fields(1) : InsertManualSegmentation(1, slice)
    \/ \E t \in PairTargets : \E key \in KeySpace(T_NMF) \cup KeySpace(T_Calcium) :
          DeleteStart(t, key)
    \/ DeleteCascade
    \/ DeleteQuick
    \/ DeleteReturn
    \/ DeleteAbort
    \/ DeleteReportsFailure

SpecPair == InitPair /\ [][NextPair]_vars

\* The rows of table t that a delete called on rel leaves to be removed.
Remaining(t, rel) == Restrict(db[t], {rel.key})

\* The Segmentation rows and the NMF or ManualSegmentation rows of a slice
\* are paired: method 2 with NMF, method 1 with ManualSegmentation.
Paired(k) ==
    /\ ([k EXCEPT !.method = 2] \in db[T_Segmentation]) <=>
          (\E r \in db[T_NMF] : Matches(r, k))
    /\ ([k EXCEPT !.method = 1] \in db[T_Segmentation]) <=>
          (\E r \in db[T_ManualSegmentation] : Matches(r, k))

\* C21: a delete invocation of which a step failed reports the failure and
\* leaves neither the target's own rows removed while dependent rows remain
\* nor, for the deletes of NMF, ManualSegmentation and Segmentation, one row
\* of a pair removed and the other present.
C21_DeleteAllOrNothing ==
    (del # <<>> /\ Head(del).op = "failed") =>
        /\ Remaining(DeleteTarget.t, DeleteTarget) = {} =>
              \A t \in Tables :
                  Descends(t, DeleteTarget.t) => Remaining(t, DeleteTarget) = {}
        /\ DeleteTarget.t \in PairTargets =>
              \A k \in KeySpace(T_NMF) : Matches(k, DeleteTarget.key) => Paired(k)

\* ------------------------------------------------------------------ motion correction per scan
\* C22: MotionCorrection is resolved once per scan: its compute runs with a
\* scan-level key, and outside a running delete a scan has MotionCorrection
\* rows for all of its slices, and is then not pending, or for none of them,
\* never for a strict subset.
C22_MotionCorrectionPerScan ==
    /\ \A w \in Workers :
          (pc[w] = "make" /\ stage_of(w) = T_MotionCorrection) => cur[w].slice = 0
    /\ Quiet =>
          \A s \in Scans :
              /\ RowsOf(T_MotionCorrection, s) \in {{}, FieldsOf(s)}
              /\ RowsOf(T_MotionCorrection, s) # {} =>
                    ScanKey(s) \notin pending(T_MotionCorrection, db)

\* ------------------------------------------------------------------ activity traces of other slices
\* The activity traces of the units of the slices other than the given one.
TracesOfOtherSlices(slice) ==
    {r \in db[T_ActivityTrace] :
        \E u \in db[T_Unit] : /\ Matches(r, Proj(u, PrimaryKey(T_Unit)))
                              /\ u.slice # slice}

\* C23: Activity.delete on the Activity rows of one slice removes the traces
\* of the units of that slice and leaves unchanged the traces of the units
\* of the other slices of the scan: no step of the delete removes one of
\* them.
C23_ActivityDeleteFrame ==
    [][(del # <<>> /\ DeleteTarget.t = T_Activity) =>
          TracesOfOtherSlices(DeleteTarget.key.slice) \subseteq db'[T_ActivityTrace]]_vars

\* ------------------------------------------------------------------ segmentation pairing
\* C24: outside a running delete, a Segmentation row with extract_method 2
\* (resp. 1) exists for a slice if and only if the NMF (resp.
\* ManualSegmentation) row of the slice exists, after any populates of NMF,
\* overridden deletes and cascade deletes of upstream stages.
C24_SegmentationPairing == Quiet => \A k \in KeySpace(T_NMF) : Paired(k)

\* ------------------------------------------------------------------ units
\* The units of a mask.
UnitsOf(m) ==
    {u \in db[T_Unit] : Proj(u, PrimaryKey(T_Mask)) = Proj(m, PrimaryKey(T_Mask))}

\* C25: unit ids are unique per scan and segmentation method in every
\* state, and outside a running delete every committed ScanSet key has
\* exactly one unit for each mask of its segmentation.
C25_UnitIds ==
    /\ \A u1, u2 \in db[T_Unit] :
          Proj(u1, PrimaryKey(T_Unit)) = Proj(u2, PrimaryKey(T_Unit)) => u1 = u2
    /\ Quiet =>
          \A k \in db[T_ScanSet] : \A m \in Restrict(db[T_Mask], {k}) :
              Cardinality(UnitsOf(m)) = 1

\* ------------------------------------------------------------------ notification order
\* The compute of worker w has emitted the notification for its key.
Notified(w) == \E i \in 1..Len(plan[w]) : i < step[w] /\ plan[w][i][1] = "notify"

\* C26: a notification for (stage, key) is emitted only after the rows of
\* the key have been committed: whenever the notification of a compute has
\* been emitted, the key is recorded as done and its rows are in the tables.
C26_NotifyAfterCommit ==
    \A w \in Workers :
        Notified(w) =>
            /\ \E j \in RecordsOf(stage_of(w), cur[w]) : j.status = "done"
            /\ tx[w] = EmptyDb

\* ------------------------------------------------------------------ the number of components
\* slice_thickness of estimate_num_components, in micrometers.
slice_thickness == 10

\* int(round(n / d)) for n >= 0 and d > 0: round to the nearest integer,
\* halves to the even one.
Round(n, d) ==
    LET q == n \div d
        r == n % d
    IN IF 2 * r > d \/ (2 * r = d /\ q % 2 = 1) THEN q + 1 ELSE q

\* SegmentationTask.estimate_num_components: the factors 0.0001 and 0.001 are
\* divisions by 10000 and 1000. In the last branch the PipelineException is
\* built and dropped, and the return statement reads num_components, which
\* was never assigned.
estimate_num_components(c, height, width) ==
    LET slice_volume == width * height * slice_thickness IN
    IF c = "soma"
      THEN [raises |-> "", value |-> <<Round(slice_volume, 10000)>>]
    ELSE IF c = "axon"
      THEN [raises |-> "", value |-> <<Round(slice_volume, 1000)>>]
    ELSE [raises |-> "UnboundLocalError", value |-> <<>>]

\* The compartments a task can name (experiment.Compartment) and the slice
\* dimensions followed.
Compartments == {"soma", "axon", "bouton"}
UmSizes == {100 * i : i \in 1..MaxUm}

\* (SegmentationTask() & key).estimate_num_components() is called.
Estimate ==
    /\ estimate = NotCalled
    /\ estimate' = estimate_num_components(compartment, um_height, um_width)
    /\ UNCHANGED <<db, jobs, relations, daemon, names, t_min, t_max, observe,
                   compartment, um_height, um_width, trace, pc, loop, keys, compute,
                   history, user>>

\* No worker runs; a task of any compartment and slice size is estimated.
InitEstimate ==
    /\ db = EmptyDb
    /\ jobs = {}
    /\ relations = [w \in Workers |-> <<>>]
    /\ daemon = [w \in Workers |-> FALSE]
    /\ WorkerInit
    /\ pc = [w \in Workers |-> "exit"]
    /\ ArgsResolved
    /\ compartment \in Compartments
    /\ um_height \in UmSizes
    /\ um_width \in UmSizes
    /\ estimate = NotCalled

NextEstimate == Estimate

SpecEstimate == InitEstimate /\ [][NextEstimate]_vars

\* C27: estimate_num_components called for a task whose compartment is
\* neither soma nor axon fails with a PipelineException; it returns no
\* component count.
C27_UnknownCompartmentRaises ==
    (estimate # NotCalled /\ compartment \notin {"soma", "axon"}) =>
        /\ estimate.raises = "PipelineException"
        /\ estimate.value = <<>>

\* ------------------------------------------------------------------ busy polling
\* Worker w has committed a result in its current cycle.
Committed(w) == \E i \in 1..Len(log[w]) : log[w][i][1] = "commit"

\* C28: a daemon worker never starts a new poll cycle without sleeping
\* unless it committed at least one result in the cycle that ends: every
\* step from the end of the for loop straight back to the loop test is taken
\* by a worker that has committed in the cycle.
C28_NoBusyPolling ==
    [][\A w \in Workers :
          (daemon[w] /\ pc[w] = "for" /\ pc'[w] = "while") => Committed(w)]_vars

\* ------------------------------------------------------------------ eventual completion
\* The orders in which a set of stages can be listed.
Orders(S) == {f \in [1..Cardinality(S) -> S] : \A i, j \in 1..Cardinality(S) :
                                                    f[i] = f[j] => i = j}

\* Two daemon workers: worker 1 on the first three stages listed in any
\* order, worker 2 on the stage worker 1 lists last, with t_min = 1 and any
\* t_max; the correction channel of every slice is set and stays.
InitLive ==
    /\ db = [EmptyDb EXCEPT ![T_CorrectionChannel] = UNION {FieldsOf(s) : s \in Scans}]
    /\ jobs = {}
    /\ \E f \in Orders({T_ScanInfo, T_RasterCorrection, T_MotionCorrection}) :
          relations = [w \in Workers |-> IF w = 1 THEN f ELSE <<f[3]>>]
    /\ daemon = [w \in Workers |-> TRUE]
    /\ WorkerInit
    /\ WorkersStart
    /\ names = [w \in Workers |->
                  [i \in 1..Len(relations[w]) |-> RelName(relations[w][i])]]
    /\ t_min = [w \in Workers |-> 1]
    /\ \E hi \in 1..MaxTime : t_max = [w \in Workers |-> hi]
    /\ observe = FALSE
    /\ exit_code = [w \in Workers |-> <<>>]
    /\ NoTask

\* The steps of a worker none of whose computes fails for a reason outside
\* the tables.
WorkerRuns(w) ==
    \/ While(w)
    \/ Progress(w)
    \/ Populate(w)
    \/ ReserveSuccess(w)
    \/ ReserveConflict(w)
    \/ PopulateReturn(w)
    \/ MakeStep(w)
    \/ Commit(w)
    \/ EndOfCycle(w)
    \/ WakeUp(w)

NextLive == \E w \in Workers : WorkerRuns(w)

\* Every worker process goes on running: a worker that can take a step
\* eventually takes one.
SpecLive == InitLive /\ [][NextLive]_vars /\ \A w \in Workers : WF_vars(WorkerRuns(w))

\* No configured stage of any worker has a pending key.
NothingPending ==
    \A w \in Workers : \A i \in 1..Len(relations[w]) : pending(relations[w][i], db) = {}

\* C29: every key that is or becomes pending in a configured stage is
\* eventually committed, after which every worker only polls with todo = 0
\* and sleeps: from some point on nothing is pending, every scan has its
\* rows in every stage, and every worker is in its loop or asleep.
C29_EventualCompletion ==
    <>[](/\ NothingPending
         /\ \A s \in Scans : /\ ScanKey(s) \in db[T_ScanInfo]
                             /\ ScanKey(s) \in db[T_RasterCorrection]
                             /\ RowsOf(T_MotionCorrection, s) = FieldsOf(s)
         /\ \A w \in Workers : pc[w] \in {"while", "for", "sleep"})

\* ------------------------------------------------------------------ correction channels removed
\* One daemon worker on the first three stages of empty tables.
InitChannel ==
    /\ db = EmptyDb
    /\ jobs = {}
    /\ relations = [w \in Workers |->
                      IF w = 1 THEN <<T_ScanInfo, T_RasterCorrection, T_MotionCorrection>>
                               ELSE <<>>]
    /\ daemon = [w \in Workers |-> w = 1]
    /\ WorkerInit
    /\ pc = [w \in Workers |-> IF w = 1 THEN "while" ELSE "exit"]
    /\ ArgsResolved
    /\ NoTask

\* The worker runs while a user sets the correction channel of slices and
\* calls (CorrectionChannel() & key).delete() for slices whose channel is set.
NextChannel ==
    \/ WorkerNext(1)
    \/ \E scan \in Scans : \E slice \in 1..num_fields(scan) :
          InsertCorrectionChannel(scan, slice)
    \/ \E key \in SliceKeys : DeleteStart(T_CorrectionChannel, key)
    \/ DeleteCascade
    \/ DeleteQuick
    \/ DeleteReturn

SpecChannel == InitChannel /\ [][NextChannel]_vars

\* C30: whenever the compute of MotionCorrection runs for a scan, and in
\* every state outside a running delete in which a scan has a
\* RasterCorrection row, a CorrectionChannel row exists for every slice of
\* the scan, whatever correction channels a user sets or deletes meanwhile.
C30_ChannelOfEverySlice ==
    /\ \A w \in Workers :
          (pc[w] = "make" /\ stage_of(w) = T_MotionCorrection) =>
              FieldsOf(cur[w].scan) \subseteq db[T_CorrectionChannel]
    /\ Quiet =>
          \A s \in Scans :
              ScanKey(s) \in db[T_RasterCorrection] =>
                  FieldsOf(s) \subseteq db[T_CorrectionChannel]
====
